---- MODULE Spec2Model ----
(***************************************************************************)
(* Per-guild playback engine of the music bot (src/Dockerfile, the         *)
(* index.js variant with createGuildState / startPlayback).                *)
(*                                                                         *)
(* One guild is modelled in detail; SpecGuilds runs two guilds through the *)
(* registry guildStates.  Every async function is cut at its awaits: the   *)
(* code between two awaits runs atomically (single-threaded event loop),   *)
(* and a suspended call is a record in the bag `tasks` holding its local   *)
(* variables and the await it is parked on.  The audio player (sink) and   *)
(* the resolver / transcoder are the environment: the sink ends or fails a *)
(* playback at any time, a resolution or probe succeeds or fails, a        *)
(* message send resolves or rejects.                                       *)
(*                                                                         *)
(* The resolver self-update (runYtDlpUpdate) is process-wide and is kept   *)
(* in the record `updater`; SpecUpdate runs it with its three callers, the *)
(* /botupdate command, the daily timer and the test made at start-up.      *)
(***************************************************************************)
EXTENDS Integers, Sequences, FiniteSets, Bags, TLC

(* ------------------------------ bounds --------------------------------- *)
\* number of enqueue requests issued in one behaviour
MaxItems == 3
\* suspended calls (loads, handler continuations) in flight at once
MaxTasks == 2
\* transcoder subprocesses alive at once
MaxLive == 2
\* saturation value of the per-track history counters
CountCap == 3

\* last day the clock of the updater reaches
MaxClock == 4
\* /botupdate handlers and update calls suspended at once
MaxCalls == 3

NULL == 0
\* ONE_DAY of the ClientReady handler, the unit of the updater's clock
ONE_DAY == 1

Modes == {"off", "track", "queue"}

VARIABLES
  queue,            \* state.queue: item ids, head first
  current,          \* state.current: item id or NULL
  currentPipe,      \* state.currentPipe: subprocess id or NULL
  currentResource,  \* state.currentResource is set
  volumePct,        \* state.volumePct, counted in halves of a percent
  gain,             \* percentage applied to the held resource, in halves; 0
                    \* while no resource is held
  tried,            \* state.restartGuard.tried
  skipRequested,    \* state.skipRequested
  loopMode,         \* state.loopMode
  status,           \* state.player status: idle / playing / paused / errored
  vc,               \* a voice connection exists for the guild
  alive,            \* subprocesses spawned and not killed
  tasks,            \* bag of suspended async calls
  nextId,           \* id given to the next enqueue request
  obs,              \* which history is recorded in this behaviour (never changes)
  ev,               \* history: what the last step did
  inst,             \* history: the track instance that is current
  ended,            \* history: the track instance the last step left
  endAdv,           \* history: dequeues by sink handlers since the last player.play
  lastDeq,          \* history: last item dequeued by playNext
  lastStart,        \* history: last item handed to the sink
  pristine,         \* history: loopMode off after every step, no shuffle, no remove
  calm,             \* history: no stop, no sink Error, no rejected send so far
  sinceStop,        \* history: a stop happened and no enqueue since
  attempts,         \* history: number of startPlayback calls so far
  solo,             \* history: the item enqueued alone on an idle engine, with
                    \* nothing but its own load having happened since
  abandoned,        \* history: the items left by handlePlayerError on a sink
                    \* Error that found restartGuard.tried set
  outcome,          \* history: the items that were started on the sink, reported
                    \* as skipped, skipped while current, removed or cleared
  together,         \* history: the most /play handlers that were suspended at
                    \* once before the first load started
  guildStates,      \* the registry guildStates: guild id -> state of that guild
  acted,            \* history: the guild whose command or event the last step
                    \* handled
  updater           \* the resolver self-update: isUpdatingYtDlp, the suspended
                    \* calls, the mark file, the daily timer and the clock

\* the state of the guild that is modelled in detail
single == << queue, current, currentPipe, currentResource, volumePct, gain,
             tried, skipRequested,
             loopMode, status, vc, alive, tasks, nextId, obs, ev, inst,
             ended, endAdv, lastDeq, lastStart, pristine, calm, sinceStop,
             attempts, solo, abandoned, outcome, together >>

vars == << single, guildStates, acted, updater >>

(* ------------------------------ helpers -------------------------------- *)
Inc(n) == IF n < CountCap THEN n + 1 ELSE CountCap

\* a track instance: the item, how often it was handed to the sink, how many sink
\* Errors its playbacks raised, whether the sink holds its resource, whether
\* anything but sink Errors touched it, whether a skip was issued since it began
NewInst(i) == [item |-> i, starts |-> 0, errs |-> 0, onSink |-> FALSE,
               other |-> FALSE, skipCmd |-> FALSE]
NoInst == NewInst(NULL)

Ev(op, tag) == [op |-> op, tag |-> tag, note |-> "none", item |-> NULL,
                deq |-> FALSE, stopped |-> FALSE, skipped |-> FALSE]

Task(kind, pc, item) == [kind |-> kind, pc |-> pc, item |-> item,
                         stopped |-> FALSE, skipped |-> FALSE]

One(t) == SetToBag({t})

\* the engine state and its history as one record
St == [queue |-> queue, current |-> current, currentPipe |-> currentPipe,
       currentResource |-> currentResource, volumePct |-> volumePct,
       gain |-> gain, tried |-> tried,
       skipRequested |-> skipRequested, loopMode |-> loopMode,
       status |-> status, vc |-> vc, alive |-> alive,
       tasks |-> tasks, nextId |-> nextId, obs |-> obs, ev |-> ev, inst |-> inst,
       ended |-> ended, endAdv |-> endAdv, lastDeq |-> lastDeq,
       lastStart |-> lastStart, pristine |-> pristine, calm |-> calm,
       sinceStop |-> sinceStop, attempts |-> attempts, solo |-> solo,
       abandoned |-> abandoned, outcome |-> outcome, together |-> together]

Fits(r) == /\ BagCardinality(r.tasks) <= MaxTasks
           /\ Cardinality(r.alive) <= MaxLive

\* loopMode has been off, and the queue unedited, in every state so far
Pristine(r) == r.pristine /\ r.loopMode = "off"

\* the steps that end, abandon, start or retry a track
NoteOps == {"idle", "idleAfterError", "skip", "stop", "error", "retry",
            "loadFailed", "abandon", "start"}

\* the commands that edit the queue or add to it
FrameOps == {"remove", "shuffle", "play", "playlist", "playCont",
             "enqueueRejected"}

\* the history a behaviour records is the one its obs selects; the rest stays blank
Commit(r) ==
  /\ Fits(r)
  /\ queue' = r.queue
  /\ current' = r.current
  /\ currentPipe' = r.currentPipe
  /\ currentResource' = r.currentResource
  /\ volumePct' = r.volumePct
  /\ gain' = r.gain
  /\ tried' = r.tried
  /\ skipRequested' = r.skipRequested
  /\ loopMode' = r.loopMode
  /\ status' = r.status
  /\ vc' = r.vc
  /\ alive' = r.alive
  /\ tasks' = r.tasks
  /\ nextId' = r.nextId
  /\ obs' = obs
  /\ ev' = IF obs = "ops" /\ r.ev.op \in {"skip", "idle", "stop"}
                THEN Ev(r.ev.op, r.ev.tag)
           ELSE IF obs = "notes"
                THEN [Ev(IF r.ev.op \in NoteOps THEN r.ev.op ELSE "",
                         IF r.ev.op \in {"loadFailed", "error"} THEN r.ev.tag ELSE "")
                        EXCEPT !.note = r.ev.note,
                               !.item = IF r.ev.op \in NoteOps THEN r.ev.item ELSE NULL]
           ELSE IF obs = "frame" /\ r.ev.op \in FrameOps
                THEN [Ev(r.ev.op, r.ev.tag) EXCEPT !.item = r.ev.item]
           ELSE IF obs = "volume" /\ r.ev.op = "volume"
                THEN Ev(r.ev.op, r.ev.tag)
           ELSE IF obs = "replay" THEN Ev(r.ev.op, "")
           ELSE IF obs = "cancel" /\ (r.ev.stopped \/ r.ev.skipped)
                THEN [r.ev EXCEPT !.deq = FALSE, !.note = "none"]
           ELSE Ev("", "")
  /\ inst' = IF obs = "retry"
             THEN (IF r.inst.other THEN [NewInst(r.inst.item) EXCEPT !.other = TRUE]
                   ELSE [r.inst EXCEPT !.skipCmd = FALSE])
             ELSE IF obs = "replay"
             THEN [NewInst(r.inst.item) EXCEPT !.skipCmd = r.inst.skipCmd]
             ELSE NoInst
  /\ ended' = IF obs = "retry" /\ ~r.ended.other /\ r.ended.errs > 0
              THEN [r.ended EXCEPT !.skipCmd = FALSE] ELSE NoInst
  /\ endAdv' = IF obs = "adv" THEN r.endAdv ELSE 0
  /\ lastDeq' = IF obs = "fifo" /\ Pristine(r) THEN r.lastDeq ELSE NULL
  /\ lastStart' = IF obs \in {"fifo", "duo"} /\ Pristine(r) /\ r.calm
                  THEN r.lastStart ELSE NULL
  /\ pristine' = IF obs = "fifo" THEN Pristine(r) ELSE TRUE
  /\ calm' = IF obs = "fifo" /\ Pristine(r) THEN r.calm ELSE TRUE
  /\ sinceStop' = IF obs = "cancel" THEN r.sinceStop ELSE FALSE
  /\ attempts' = IF obs \in {"broken", "duo"} \/ (obs = "solo" /\ r.solo # NULL)
                 THEN r.attempts ELSE 0
  /\ solo' = IF obs = "solo" THEN r.solo ELSE NULL
  /\ abandoned' = IF obs = "drop" THEN r.abandoned ELSE {}
  /\ outcome' = IF obs = "lost" THEN r.outcome ELSE {}
  /\ together' = IF obs = "duo" THEN r.together ELSE 0
  /\ UNCHANGED << guildStates, acted, updater >>

\* the steps of a /play and of the load it starts
SoloOps == {"playCont", "spawn", "start"}

\* the engine is idle: nothing current, queued, playing, alive or in flight
IdleEngine(s) ==
  /\ s.current = NULL /\ s.queue = << >> /\ s.status = "idle"
  /\ s.currentPipe = NULL /\ s.alive = {} /\ s.tasks = EmptyBag

\* start of a step: the history of the previous step is dropped
Begin(op, tag) == [St EXCEPT !.ev = Ev(op, tag), !.ended = NoInst,
                             !.solo = IF op \in SoloOps THEN @ ELSE NULL]

(* ------------------------- engine functions ---------------------------- *)
\* a cleanupCurrentPipeline that also destroys the voice connection
cleanupReleasesVoice(s) ==
  IF s.currentPipe = NULL THEN [s EXCEPT !.vc = FALSE]
  ELSE [s EXCEPT !.alive = @ \ {s.currentPipe}, !.currentPipe = NULL, !.vc = FALSE]

\* a cleanupCurrentPipeline without the finally block: the handle stays
cleanupKeepsHandle(s) ==
  IF s.currentPipe = NULL THEN s
  ELSE [s EXCEPT !.alive = @ \ {s.currentPipe}]

\* kill the subprocess the state refers to and forget it
cleanupCurrentPipeline(s) ==
  IF s.currentPipe = NULL THEN s
  ELSE [s EXCEPT !.alive = @ \ {s.currentPipe}, !.currentPipe = NULL]

\* join the voice channel when there is no connection
ensureVC(s) == [s EXCEPT !.vc = TRUE]

\* startPlayback up to its first await (resolveFirstVideoUrl)
startPlayback(s, kind, item) ==
  [ensureVC(s) EXCEPT !.tasks = @ (+) One(Task(kind, "resolve", item)),
                      !.attempts = IF @ <= MaxItems THEN @ + 1 ELSE @]

\* history: the current track instance is left
LeaveInst(s) ==
  [s EXCEPT !.ended = IF s.inst.item # NULL THEN s.inst ELSE @,
            !.inst = NoInst]

\* a playNext that takes the newest queue entry instead of the oldest
playNextNewest(s) ==
  LET s1 == cleanupCurrentPipeline([LeaveInst(s) EXCEPT !.tried = FALSE])
  IN IF Len(s1.queue) = 0
     THEN [s1 EXCEPT !.current = NULL, !.vc = FALSE, !.ev.note = "empty"]
     ELSE LET next == s1.queue[Len(s1.queue)]
              s2 == [s1 EXCEPT !.queue = SubSeq(@, 1, Len(@) - 1), !.current = next,
                               !.inst = NewInst(next), !.lastDeq = next,
                               !.ev.deq = TRUE]
          IN startPlayback(s2, "playNext", next)

\* a playNext that leaves restartGuard.tried as it finds it
playNextKeepsTried(s) ==
  LET s1 == cleanupCurrentPipeline(LeaveInst(s))
  IN IF Len(s1.queue) = 0
     THEN [s1 EXCEPT !.current = NULL, !.vc = FALSE, !.ev.note = "empty"]
     ELSE LET next == Head(s1.queue)
              s2 == [s1 EXCEPT !.queue = Tail(@), !.current = next,
                               !.inst = NewInst(next), !.lastDeq = next,
                               !.ev.deq = TRUE]
          IN startPlayback(s2, "playNext", next)

\* a playNext that reads the head of the queue without removing it
playNextPeeks(s) ==
  LET s1 == cleanupCurrentPipeline([LeaveInst(s) EXCEPT !.tried = FALSE])
  IN IF Len(s1.queue) = 0
     THEN [s1 EXCEPT !.current = NULL, !.vc = FALSE, !.ev.note = "empty"]
     ELSE LET next == Head(s1.queue)
              s2 == [s1 EXCEPT !.current = next,
                               !.inst = NewInst(next), !.lastDeq = next,
                               !.ev.deq = TRUE]
          IN startPlayback(s2, "playNext", next)

\* playNext up to its first await
playNext(s) ==
  LET s1 == cleanupCurrentPipeline([LeaveInst(s) EXCEPT !.tried = FALSE])
  IN IF Len(s1.queue) = 0
     THEN [s1 EXCEPT !.current = NULL, !.vc = FALSE, !.ev.note = "empty"]
     ELSE LET next == Head(s1.queue)
              s2 == [s1 EXCEPT !.queue = Tail(@), !.current = next,
                               !.inst = NewInst(next), !.lastDeq = next,
                               !.ev.deq = TRUE]
          IN startPlayback(s2, "playNext", next)

\* the id of the next subprocess spawned
FreshPid(s) == CHOOSE p \in 1..(MaxLive + 2) :
                 /\ p \notin s.alive
                 /\ \A q \in 1..(p - 1) : q \in s.alive

\* a playSame that spawns ffmpeg on the media url obtained for the item before
playSameCached(s, item) ==
  LET s1 == ensureVC(cleanupCurrentPipeline([s EXCEPT !.current = item]))
      p == FreshPid(s1)
  IN [s1 EXCEPT !.alive = @ \cup {p},
                !.currentPipe = p,
                !.tasks = @ (+) One(Task("playSame", "probe", item)),
                !.attempts = IF @ <= MaxItems THEN @ + 1 ELSE @]

\* playSame up to its first await
playSame(s, item) ==
  startPlayback(cleanupCurrentPipeline([s EXCEPT !.current = item]),
                "playSame", item)

\* a handlePlayerIdle that replays under loopMode=track whether or not a skip
\* was requested
handlePlayerIdleIgnoresSkip(s, natural) ==
  LET s1 == [cleanupCurrentPipeline(s) EXCEPT !.currentResource = FALSE, !.gain = 0]
  IN IF s1.current = NULL THEN s1
     ELSE LET finished == s1.current
              s2 == [s1 EXCEPT !.skipRequested = FALSE]
          IN IF s2.loopMode = "track"
             THEN playSame([s2 EXCEPT !.tried = FALSE,
                                      !.inst = IF natural THEN NewInst(finished) ELSE @],
                           finished)
             ELSE playNext([s2 EXCEPT
                     !.queue = IF s2.loopMode = "queue" THEN Append(@, finished) ELSE @,
                     !.current = NULL])

\* a handlePlayerIdle that does not put the finished item back under
\* loopMode=queue
handlePlayerIdleDropsFinished(s, natural) ==
  LET s1 == [cleanupCurrentPipeline(s) EXCEPT !.currentResource = FALSE, !.gain = 0]
  IN IF s1.current = NULL THEN s1
     ELSE LET finished == s1.current
              manualSkip == s1.skipRequested
              s2 == [s1 EXCEPT !.skipRequested = FALSE]
          IN IF s2.loopMode = "track" /\ ~manualSkip
             THEN playSame([s2 EXCEPT !.tried = FALSE,
                                      !.inst = IF natural THEN NewInst(finished) ELSE @],
                           finished)
             ELSE playNext([s2 EXCEPT !.current = NULL])

\* a handlePlayerIdle that reads skipRequested and leaves it set
handlePlayerIdleKeepsSkip(s, natural) ==
  LET s1 == [cleanupCurrentPipeline(s) EXCEPT !.currentResource = FALSE, !.gain = 0]
  IN IF s1.current = NULL THEN s1
     ELSE LET finished == s1.current
              manualSkip == s1.skipRequested
          IN IF s1.loopMode = "track" /\ ~manualSkip
             THEN playSame([s1 EXCEPT !.tried = FALSE,
                                      !.inst = IF natural THEN NewInst(finished) ELSE @],
                           finished)
             ELSE playNext([s1 EXCEPT
                     !.queue = IF s1.loopMode = "queue" THEN Append(@, finished) ELSE @,
                     !.current = NULL])

\* a handlePlayerIdle that puts the finished item back under loopMode=queue
\* only when no skip was requested
handlePlayerIdleSkipDrops(s, natural) ==
  LET s1 == [cleanupCurrentPipeline(s) EXCEPT !.currentResource = FALSE, !.gain = 0]
  IN IF s1.current = NULL THEN s1
     ELSE LET finished == s1.current
              manualSkip == s1.skipRequested
              s2 == [s1 EXCEPT !.skipRequested = FALSE]
          IN IF s2.loopMode = "track" /\ ~manualSkip
             THEN playSame([s2 EXCEPT !.tried = FALSE,
                                      !.inst = IF natural THEN NewInst(finished) ELSE @],
                           finished)
             ELSE playNext([s2 EXCEPT
                     !.queue = IF s2.loopMode = "queue" /\ ~manualSkip
                               THEN Append(@, finished) ELSE @,
                     !.current = NULL])

\* handlePlayerIdle up to its first await; natural tells the history
\* whether the sink ended the track by itself
handlePlayerIdle(s, natural) ==
  LET s1 == [cleanupCurrentPipeline(s) EXCEPT !.currentResource = FALSE, !.gain = 0]
  IN IF s1.current = NULL THEN s1
     ELSE LET finished == s1.current
              manualSkip == s1.skipRequested
              s2 == [s1 EXCEPT !.skipRequested = FALSE]
          IN IF s2.loopMode = "track" /\ ~manualSkip
             THEN playSame([s2 EXCEPT !.tried = FALSE,
                                      !.inst = IF natural THEN NewInst(finished) ELSE @],
                           finished)
             ELSE playNext([s2 EXCEPT
                     !.queue = IF s2.loopMode = "queue" THEN Append(@, finished) ELSE @,
                     !.current = NULL])

\* a handlePlayerError that tears down and reloads before it notifies
handlePlayerErrorRetriesFirst(s) ==
  IF s.current = NULL THEN s
  ELSE IF ~s.tried
       THEN playSame([s EXCEPT !.tried = TRUE, !.ev.note = "reconnect"], s.current)
       ELSE playNext(s)

\* a handlePlayerError that ends the track like a completion when the
\* restart was already used
handlePlayerErrorLoops(s) ==
  IF s.current = NULL THEN s
  ELSE IF ~s.tried
       THEN [s EXCEPT !.tried = TRUE, !.ev.note = "reconnect",
                      !.tasks = @ (+) One(Task("handlePlayerError", "reconnect", s.current))]
       ELSE handlePlayerIdle(s, FALSE)

\* handlePlayerError up to its first await
handlePlayerError(s) ==
  IF s.current = NULL THEN s
  ELSE IF ~s.tried
       THEN [s EXCEPT !.tried = TRUE, !.ev.note = "reconnect",
                      !.tasks = @ (+) One(Task("handlePlayerError", "reconnect", s.current))]
       ELSE playNext(s)

\* player.stop(true): a player that is playing or paused goes idle and
\* emits Idle to its listener before stop returns
playerStop(s) ==
  IF s.status \in {"playing", "paused"}
  THEN handlePlayerIdle([s EXCEPT !.status = "idle"], FALSE)
  ELSE s

\* player.play(resource)
playerPlay(s, item) ==
  [s EXCEPT !.status = "playing", !.endAdv = 0,
            !.lastStart = item,
            !.inst.starts = IF s.inst.item = item THEN Inc(@) ELSE @,
            !.inst.onSink = (s.inst.item = item)]

(* ------------------------------ Init ----------------------------------- *)
(* ------------------------------ volume ---------------------------------- *)
\* n percent in the unit of volumePct
Pct(n) == 2 * n

\* Number.isInteger of a value counted in halves
IsInteger(h) == h % 2 = 0

Min(a, b) == IF a < b THEN a ELSE b
Max(a, b) == IF a > b THEN a ELSE b

\* values of the environment variable DEFAULT_VOLUME
EnvValues == {"unset", "", "abc", "0", "-5", "80", "12.5", "1000", "5000"}

\* Number(process.env.DEFAULT_VOLUME): NaN, or a number counted in halves
NumberOf(e) ==
  CASE e \in {"unset", "abc"} -> [nan |-> TRUE, h |-> 0]
    [] e \in {"", "0"} -> [nan |-> FALSE, h |-> 0]
    [] e = "-5" -> [nan |-> FALSE, h |-> Pct(-5)]
    [] e = "80" -> [nan |-> FALSE, h |-> Pct(80)]
    [] e = "12.5" -> [nan |-> FALSE, h |-> Pct(12) + 1]
    [] e = "1000" -> [nan |-> FALSE, h |-> Pct(1000)]
    [] e = "5000" -> [nan |-> FALSE, h |-> Pct(5000)]

\* config.defaultVolume: NaN and 0 are falsy and give 100
defaultVolume(e) ==
  LET n == NumberOf(e)
      v == IF n.nan \/ n.h = 0 THEN Pct(100) ELSE n.h
  IN Max(0, Min(Pct(1000), v))

\* applyVolume: the held resource, if any, takes the stored percentage
applyVolume(s) ==
  IF s.currentResource THEN [s EXCEPT !.gain = Max(s.volumePct, 0)] ELSE s

\* setVolumePct, pct counted in halves
setVolumePct(s, pct) ==
  LET p0 == IF pct < 0 THEN 0 ELSE pct
      p1 == IF p0 > Pct(1000) THEN Pct(1000) ELSE p0
  IN applyVolume([s EXCEPT !.volumePct = p1])

\* percentages passed to setVolumePct; the /volume option itself is declared
\* with the range 0..1000
Percents == {-5, 0, 1, 100, 1000, 1001, 5000}

\* what the last step of the updater did, for whom, and how it came out
UEv(op, by, tag) == [op |-> op, by |-> by, tag |-> tag]

\* the updater of a process that starts with m in the mark file (0 when the
\* file is missing, as readLastUpdateTs reads it) more than a day after day 0
ProcessStart(m) ==
  [isUpdatingYtDlp |-> FALSE, calls |-> EmptyBag, mark |-> m,
   now |-> ONE_DAY + 1, timer |-> "boot", due |-> 0,
   uev |-> UEv("init", "", "")]

\* a guild without state and nothing playing
InitState ==
  /\ queue = << >>
  /\ current = NULL
  /\ currentPipe = NULL
  /\ currentResource = FALSE
  /\ gain = 0
  /\ tried = FALSE
  /\ skipRequested = FALSE
  /\ loopMode \in Modes
  /\ status = "idle"
  /\ vc = FALSE
  /\ alive = {}
  /\ tasks = EmptyBag
  /\ nextId = 1
  /\ ev = Ev("init", "")
  /\ inst = NoInst
  /\ ended = NoInst
  /\ endAdv = 0
  /\ lastDeq = NULL
  /\ lastStart = NULL
  /\ pristine = TRUE
  /\ calm = TRUE
  /\ sinceStop = FALSE
  /\ attempts = 0
  /\ solo = NULL
  /\ abandoned = {}
  /\ outcome = {}
  /\ together = 0
  /\ guildStates = << >>
  /\ acted = "none"

Init0 == InitState /\ updater = ProcessStart(0)

\* the guild state of a process started without DEFAULT_VOLUME
InitEngine == Init0 /\ volumePct = defaultVolume("unset")

(* ------------------------ history bookkeeping --------------------------- *)
IsLoad(t) == t.kind \in {"playNext", "playSame"} /\ t.pc \in {"resolve", "probe"}

\* history: dequeues made by a sink handler count against the ended playback
CountAdv(r) == [r EXCEPT !.endAdv = IF r.ev.deq THEN Inc(@) ELSE @]

\* history: something other than a sink Error touched track i
Touch(s, i) == [s EXCEPT !.inst.other = IF s.inst.item = i THEN TRUE ELSE @]

Drop(s, t) == [s EXCEPT !.tasks = @ (-) One(t)]

Move(s, t, pc) == [s EXCEPT !.tasks = (@ (-) One(t)) (+) One([t EXCEPT !.pc = pc])]

Pending == BagToSet(tasks)

\* history: flag the suspended load t (of item it, of any item when it is NULL)
Mark(t, flag, it) ==
  IF IsLoad(t) /\ (it = NULL \/ t.item = it) THEN [t EXCEPT ![flag] = TRUE] ELSE t

\* history: the bag B with its suspended loads flagged
MarkBag(B, flag, it) ==
  LET count(x) ==
        (IF Mark(x, flag, it) = x THEN CopiesIn(x, B) ELSE 0)
        + (LET u == [x EXCEPT ![flag] = FALSE]
           IN IF u # x /\ Mark(u, flag, it) = x THEN CopiesIn(u, B) ELSE 0)
  IN [x \in {Mark(t, flag, it) : t \in BagToSet(B)} |-> count(x)]

(* ------------------------------ commands -------------------------------- *)
\* /play after deferReply and getTitle: push, then await editReply
PlayPush ==
  /\ nextId <= MaxItems
  /\ Commit([Begin("play", "") EXCEPT
        !.queue = Append(@, nextId),
        !.nextId = @ + 1,
        !.solo = IF IdleEngine(St) THEN nextId ELSE NULL,
        !.attempts = IF obs = "solo" THEN 0 ELSE @,
        !.sinceStop = FALSE,
        !.together = IF attempts = 0
                     THEN Max(@, CopiesIn(Task("play", "reply", NULL), tasks) + 1)
                     ELSE @,
        !.tasks = @ (+) One(Task("play", "reply", NULL))])

\* /playlist after fetchPlaylistEntries returned n entries: push all, await editReply
PlaylistPush ==
  \E n \in 1..2 :
    /\ nextId + n - 1 <= MaxItems
    /\ Commit([Begin("playlist", "") EXCEPT
          !.queue = @ \o [k \in 1..n |-> nextId + k - 1],
          !.nextId = @ + n,
          !.sinceStop = FALSE,
          !.tasks = @ (+) One(Task("play", "reply", NULL))])

\* a /play that ends after editReply resolved without calling playNext
PlayContForgets ==
  \E t \in Pending :
    /\ t.kind = "play"
    /\ Commit(Drop(Begin("playCont", ""), t))

\* a /play that calls playNext whether or not a track is current
PlayContAlways ==
  \E t \in Pending :
    /\ t.kind = "play"
    /\ Commit(playNext(Drop(Begin("playCont", ""), t)))

\* a /play that calls playNext whenever the queue holds an item
PlayContEager ==
  \E t \in Pending :
    /\ t.kind = "play"
    /\ LET s == Drop(Begin("playCont", ""), t)
       IN Commit(IF Len(s.queue) > 0 THEN playNext(s) ELSE s)

\* /play and /playlist after editReply resolved
PlayCont ==
  \E t \in Pending :
    /\ t.kind = "play"
    /\ LET s == Drop(Begin("playCont", ""), t)
       IN Commit(IF s.current = NULL THEN playNext(s) ELSE s)

\* /skip
Skip ==
  LET loading == status \in {"idle", "errored"} /\ current # NULL
      tag == IF current = NULL THEN "nocurrent"
             ELSE IF status = "playing" THEN "playing"
             ELSE IF status = "paused" THEN "paused" ELSE "loading"
      s0 == [Begin("skip", tag) EXCEPT
               !.skipRequested = TRUE,
               !.outcome = @ \cup ({current} \ {NULL}),
               !.inst.skipCmd = TRUE,
               !.inst.other = TRUE,
               !.tasks = IF obs = "cancel" /\ loading
                         THEN MarkBag(@, "skipped", current) ELSE @]
  IN \E r \in {CountAdv(cleanupCurrentPipeline(playerStop(s0)))} : Commit(r)

\* a /stop that stops the player before it clears the state
StopSinkFirst ==
  LET tag == IF status \in {"playing", "paused"} THEN status
             ELSE IF current # NULL THEN "loading" ELSE "idle"
      s0 == playerStop([Begin("stop", tag) EXCEPT !.skipRequested = FALSE])
      s1 == [s0 EXCEPT !.queue = << >>, !.current = NULL, !.loopMode = "off"]
  IN \E r \in {[cleanupCurrentPipeline(s1) EXCEPT !.vc = FALSE]} : Commit(r)

\* /stop
Stop ==
  LET tag == IF status \in {"playing", "paused"} THEN status
             ELSE IF current # NULL THEN "loading" ELSE "idle"
      s0 == [LeaveInst([Begin("stop", tag) EXCEPT !.inst.other = TRUE]) EXCEPT
               !.queue = << >>,
               !.current = NULL,
               !.loopMode = "off",
               !.skipRequested = FALSE,
               !.calm = FALSE,
               !.sinceStop = TRUE,
               !.outcome = @ \cup {queue[k] : k \in 1..Len(queue)} \cup ({current} \ {NULL}),
               !.tasks = IF obs = "cancel" THEN MarkBag(@, "stopped", NULL) ELSE @]
  IN \E r \in {[cleanupCurrentPipeline(playerStop(s0)) EXCEPT !.vc = FALSE]} : Commit(r)

\* /pause
Pause ==
  /\ status = "playing"
  /\ Commit([Begin("pause", "") EXCEPT !.status = "paused"])

\* /resume
Resume ==
  /\ status = "paused"
  /\ Commit([Begin("resume", "") EXCEPT !.status = "playing"])

\* /volume
Volume ==
  \E v \in Percents :
    Commit(setVolumePct(Begin("volume", ToString(v)), Pct(v)))

\* /loop
Loop ==
  \E m \in Modes :
    Commit([Begin("loop", m) EXCEPT
       !.loopMode = m])

RemoveAt(q, i) == [k \in 1..(Len(q) - 1) |-> IF k < i THEN q[k] ELSE q[k + 1]]

\* a /remove that hands every index to splice: -1 (index 0) removes the last
\* entry, an index past the end removes nothing
RemoveUnchecked ==
  \E i \in 0..(Len(queue) + 1) :
    IF Len(queue) = 0 THEN Commit([Begin("remove", "empty") EXCEPT !.ev.item = i])
    ELSE IF i > Len(queue)
    THEN Commit([Begin("remove", "invalid") EXCEPT !.ev.item = i])
    ELSE Commit([Begin("remove", IF i < 1 THEN "invalid" ELSE "removed") EXCEPT
            !.ev.item = i,
            !.queue = RemoveAt(@, IF i < 1 THEN Len(@) ELSE i),
            !.pristine = FALSE])

\* a /remove that hands the 1-based index to splice as it is
RemoveZeroBased ==
  \E i \in 0..(Len(queue) + 1) :
    IF Len(queue) = 0 THEN Commit([Begin("remove", "empty") EXCEPT !.ev.item = i])
    ELSE IF i < 1 \/ i > Len(queue)
    THEN Commit([Begin("remove", "invalid") EXCEPT !.ev.item = i])
    ELSE Commit([Begin("remove", "removed") EXCEPT
            !.ev.item = i,
            !.queue = IF i < Len(@) THEN RemoveAt(@, i + 1) ELSE @,
            !.pristine = FALSE])

\* /remove with index i; the history keeps the index in ev.item
Remove ==
  \E i \in 0..(Len(queue) + 1) :
    IF Len(queue) = 0 THEN Commit([Begin("remove", "empty") EXCEPT !.ev.item = i])
    ELSE IF i < 1 \/ i > Len(queue)
    THEN Commit([Begin("remove", "invalid") EXCEPT !.ev.item = i])
    ELSE Commit([Begin("remove", "removed") EXCEPT
            !.ev.item = i,
            !.queue = RemoveAt(@, i),
            !.outcome = @ \cup {queue[i]},
            !.pristine = FALSE])

\* a swap that writes one of the two positions only
SwapOverwrites(q, a, b) == [q EXCEPT ![a] = q[b]]

Swap(q, a, b) == [q EXCEPT ![a] = q[b], ![b] = q[a]]

\* the loop of /shuffle for i = Len(q)-1 down to 1 (0-based), js[i] the j drawn for i
RECURSIVE FisherYates(_, _, _)
FisherYates(q, i, js) ==
  IF i < 1 THEN q
  ELSE FisherYates(Swap(q, i + 1, js[i] + 1), i - 1, js)

\* /shuffle
Shuffle ==
  IF Len(queue) < 2 THEN Commit(Begin("shuffle", "short"))
  ELSE \E js \in [1..(Len(queue) - 1) -> 0..(Len(queue) - 1)] :
         /\ \A i \in DOMAIN js : js[i] <= i
         /\ Commit([Begin("shuffle", "shuffled") EXCEPT
               !.queue = FisherYates(@, Len(queue) - 1, js),
               !.pristine = FALSE])

(* --------------------------- sink events -------------------------------- *)
\* the sink finishes the resource it is playing and emits Idle
SinkIdle ==
  /\ status = "playing"
  /\ LET tag == IF current = NULL THEN "nocurrent" ELSE loopMode
         s0 == [Begin("idle", tag) EXCEPT
                  !.status = "idle", !.inst.other = TRUE]
     IN Commit(CountAdv(handlePlayerIdle(s0, TRUE)))

\* the stream of the resource being played fails and the sink emits Error
SinkError ==
  /\ status = "playing"
  /\ LET tag == IF current = NULL THEN "nocurrent"
                ELSE IF tried THEN "second" ELSE "first"
         s0 == [Begin("error", tag) EXCEPT
                  !.status = "errored",
                  !.calm = FALSE,
                  !.abandoned = IF current # NULL /\ tried THEN @ \cup {current} ELSE @,
                  !.inst.errs = IF inst.onSink THEN Inc(@) ELSE @,
                  !.inst.other = IF inst.onSink THEN @ ELSE TRUE]
     IN Commit(CountAdv(handlePlayerError(s0)))

\* after Error the sink has left the failed resource and emits Idle
SinkIdleAfterError ==
  /\ status = "errored"
  /\ LET s0 == [Begin("idleAfterError", "") EXCEPT
                  !.status = "idle"]
     IN Commit(CountAdv(handlePlayerIdle(s0, FALSE)))

(* --------------------------- continuations ------------------------------ *)
\* a startPlayback whose caller announces the track when ffmpeg is spawned
LoadResolvedAnnounces ==
  \E t \in Pending :
    /\ t.kind \in {"playNext", "playSame"} /\ t.pc = "resolve"
    /\ LET s0 == [Begin("spawn", t.kind) EXCEPT !.ev.item = t.item]
           p == FreshPid(s0)
           s1 == [Move(s0, t, "probe") EXCEPT
                    !.alive = @ \cup {p},
                    !.currentPipe = p,
                    !.ev.note = "nowplaying"]
       IN Commit(s1)

\* startPlayback: resolveFirstVideoUrl and getDirectAudioUrlAndHeaders returned,
\* ffmpeg is spawned and recorded, demuxProbe is awaited
LoadResolved ==
  \E t \in Pending :
    /\ t.kind \in {"playNext", "playSame"} /\ t.pc = "resolve"
    /\ LET s0 == [Begin("spawn", t.kind) EXCEPT !.ev.item = t.item]
           p == FreshPid(s0)
           s1 == [Move(s0, t, "probe") EXCEPT
                    !.alive = @ \cup {p},
                    !.currentPipe = p,
                    !.ev.stopped = t.stopped,
                    !.ev.skipped = t.skipped]
       IN Commit(s1)

\* startPlayback throws: no page url, no media url, ffmpeg unavailable, probe rejected
LoadFailed ==
  \E t \in Pending :
    /\ IsLoad(t)
    /\ LET s0 == Touch([Begin("loadFailed", t.kind) EXCEPT !.ev.item = t.item], t.item)
       IN IF t.kind = "playNext"
          THEN Commit([Move(s0, t, "skipmsg") EXCEPT !.ev.note = "skipped",
                                                    !.outcome = @ \cup {t.item}])
          ELSE Commit(playNext([Drop(s0, t) EXCEPT !.current = NULL]))

\* startPlayback: demuxProbe resolved, the resource is created and played
LoadProbed ==
  \E t \in Pending :
    /\ t.kind \in {"playNext", "playSame"} /\ t.pc = "probe"
    /\ LET s0 == [Begin("start", t.kind) EXCEPT
                    !.ev.item = t.item,
                    !.outcome = @ \cup {t.item},
                    !.currentResource = TRUE,
                    !.gain = Max(volumePct, 0),
                    !.ev.stopped = t.stopped,
                    !.ev.skipped = t.skipped]
           s1 == playerPlay(s0, t.item)
       IN IF t.kind = "playNext"
          THEN Commit([Drop(s1, t) EXCEPT !.ev.note = "nowplaying"])
          ELSE Commit(Drop(s1, t))

\* a catch block of playNext that puts the failed item back into the queue
SkipMsgResolvedRequeues ==
  \E t \in Pending :
    /\ t.pc = "skipmsg"
    /\ LET s0 == [Begin("abandon", "") EXCEPT !.ev.item = t.item]
       IN Commit(playNext([Drop(s0, t) EXCEPT !.current = NULL,
                                              !.queue = Append(@, t.item)]))

\* playNext catch block after the skip message was sent
SkipMsgResolved ==
  \E t \in Pending :
    /\ t.pc = "skipmsg"
    /\ LET s0 == [Begin("abandon", "") EXCEPT !.ev.item = t.item]
       IN Commit(playNext([Drop(s0, t) EXCEPT !.current = NULL]))

\* handlePlayerError after the reconnect message was sent
ErrCont ==
  \E t \in Pending :
    /\ t.kind = "handlePlayerError"
    /\ LET s == Drop([Begin("retry", IF current = NULL THEN "nocurrent" ELSE "") EXCEPT
                       !.ev.item = t.item], t)
       IN Commit(IF s.current = NULL THEN s ELSE playSame(s, s.current))

(* ------------------------- rejected sends ------------------------------- *)
\* sendToTextChannel returns the promise of ch.send, and editReply is awaited
\* bare: a rejection reaches the awaiting function.  Whether a send will
\* reject is decided when it is made.

\* /play or /playlist whose editReply rejects: the items are queued and the
\* handler ends before it looks at state.current
EnqueueReplyRejected ==
  \E n \in 1..2 :
    /\ nextId + n - 1 <= MaxItems
    /\ Commit([Begin("enqueueRejected", "") EXCEPT
          !.queue = @ \o [k \in 1..n |-> nextId + k - 1],
          !.nextId = @ + n,
          !.calm = FALSE,
          !.sinceStop = FALSE])

\* first sink Error whose reconnect message rejects: handlePlayerError ends
\* before playSame
SinkErrorSendRejected ==
  /\ status = "playing"
  /\ current # NULL
  /\ ~tried
  /\ Commit([Begin("error", "rejected") EXCEPT
        !.status = "errored",
        !.tried = TRUE,
        !.calm = FALSE,
        !.inst.other = TRUE,
        !.ev.note = "reconnect"])

\* playNext: startPlayback throws and the skip message rejects: playNext ends
\* inside its catch block
LoadFailedSendRejected ==
  \E t \in Pending :
    /\ IsLoad(t) /\ t.kind = "playNext"
    /\ Commit([Drop(Touch(Begin("loadFailed", "rejected"), t.item), t) EXCEPT
          !.ev.item = t.item,
          !.calm = FALSE,
          !.ev.note = "skipped"])

\* playNext: the track starts and the now-playing message rejects: the catch
\* block sends the skip message and awaits it
LoadProbedSendRejected ==
  \E t \in Pending :
    /\ t.kind = "playNext" /\ t.pc = "probe"
    /\ LET s0 == [Begin("start", "rejected") EXCEPT
                    !.ev.item = t.item,
                    !.outcome = @ \cup {t.item},
                    !.solo = NULL,
                    !.currentResource = TRUE,
                    !.gain = Max(volumePct, 0),
                    !.calm = FALSE,
                    !.ev.stopped = t.stopped,
                    !.ev.skipped = t.skipped]
           s1 == Touch(playerPlay(s0, t.item), t.item)
       IN Commit([Move(s1, t, "skipmsg") EXCEPT !.ev.note = "nowplaying"])

\* commands, sink events and continuations of the playback engine
Engine ==
  \/ PlayPush
  \/ PlaylistPush
  \/ PlayCont
  \/ Skip
  \/ Stop
  \/ Loop
  \/ SinkIdle
  \/ SinkError
  \/ SinkIdleAfterError
  \/ LoadResolved
  \/ LoadFailed
  \/ LoadProbed
  \/ SkipMsgResolved
  \/ ErrCont

\* the steps in which a send to the text channel, or a reply, rejects
Rejections ==
  \/ EnqueueReplyRejected
  \/ SinkErrorSendRejected
  \/ LoadFailedSendRejected
  \/ LoadProbedSendRejected

Next ==
  \/ Engine
  \/ Rejections
  \/ Pause
  \/ Resume
  \/ Remove
  \/ Shuffle

Init == InitEngine /\ obs = "none"

Spec == Init /\ [][Next]_vars

\* the same behaviours, each recording one kind of history
\* with the commands that pause and resume the sink
NextPause ==
  \/ Engine
  \/ Rejections
  \/ Pause
  \/ Resume

InitOps == InitEngine /\ obs = "ops"
SpecOps == InitOps /\ [][NextPause]_vars

\* the engine with rejected sends
NextFaulty ==
  \/ Engine
  \/ Rejections

InitCancel == InitEngine /\ obs = "cancel"
SpecCancel == InitCancel /\ [][Engine]_vars

InitAdv == InitEngine /\ obs = "adv"
SpecAdv == InitAdv /\ [][NextFaulty]_vars

InitRetry == InitEngine /\ obs = "retry"
SpecRetry == InitRetry /\ [][NextFaulty]_vars

InitReplay == InitEngine /\ obs = "replay"
SpecReplay == InitReplay /\ [][Engine]_vars

InitNotes == InitEngine /\ obs = "notes"
SpecNotes == InitNotes /\ [][NextFaulty]_vars
SpecNotesCore == InitNotes /\ [][Engine]_vars

\* the engine when no load ever succeeds and no send rejects: nothing is
\* played, so the sink raises no event; every pending step is taken eventually
NextBroken ==
  \/ PlayPush
  \/ PlaylistPush
  \/ PlayCont
  \/ Skip
  \/ Loop
  \/ LoadResolved
  \/ LoadFailed
  \/ SkipMsgResolved

InitBroken == InitEngine /\ obs = "broken"

SpecBroken ==
  /\ InitBroken
  /\ [][NextBroken]_vars
  /\ WF_vars(PlayCont)
  /\ WF_vars(LoadFailed)
  /\ WF_vars(SkipMsgResolved)

InitSolo == InitEngine /\ obs = "solo"
SpecSolo == InitSolo /\ [][NextFaulty]_vars

\* with the commands that edit the queue
NextQueue ==
  \/ Engine
  \/ Rejections
  \/ Remove
  \/ Shuffle

InitFifo == InitEngine /\ obs = "fifo"
SpecFifo == InitFifo /\ [][NextQueue]_vars

\* the engine with /remove and with enqueue replies that reject
NextFrame ==
  \/ Engine
  \/ EnqueueReplyRejected
  \/ Remove

InitFrame == InitEngine /\ obs = "frame"
SpecFrame == InitFrame /\ [][NextFrame]_vars

\* the engine under loopMode=off without /loop, /pause and /remove; a
\* suspended call is resumed eventually and a track on the sink ends
\* eventually, commands and rejected sends may or may not happen
NextLost ==
  \/ PlayPush
  \/ PlayCont
  \/ Skip
  \/ Stop
  \/ SinkIdle
  \/ SinkError
  \/ SinkIdleAfterError
  \/ LoadResolved
  \/ LoadFailed
  \/ LoadProbed
  \/ SkipMsgResolved
  \/ ErrCont
  \/ LoadFailedSendRejected

\* a step of a suspended load
LoadStep == LoadResolved \/ LoadFailed \/ LoadProbed \/ LoadFailedSendRejected

\* the sink ends what it plays
SinkStep == SinkIdle \/ SinkError

InitLost == InitEngine /\ obs = "lost" /\ loopMode = "off"

SpecLost ==
  /\ InitLost
  /\ [][NextLost]_vars
  /\ WF_vars(PlayCont)
  /\ WF_vars(LoadStep)
  /\ WF_vars(SkipMsgResolved)
  /\ WF_vars(ErrCont)
  /\ WF_vars(SinkStep)
  /\ WF_vars(SinkIdleAfterError)

\* the same without rejected sends
SpecLostCore ==
  /\ InitLost
  /\ [][NextLost /\ ~LoadFailedSendRejected]_vars
  /\ WF_vars(PlayCont)
  /\ WF_vars(LoadStep /\ ~LoadFailedSendRejected)
  /\ WF_vars(SkipMsgResolved)
  /\ WF_vars(ErrCont)
  /\ WF_vars(SinkStep)
  /\ WF_vars(SinkIdleAfterError)

\* /play, /skip, /pause and /resume on an engine under loopMode=off on which
\* every load succeeds and no send rejects
NextDuo ==
  \/ PlayPush
  \/ PlayCont
  \/ Skip
  \/ Pause
  \/ Resume
  \/ LoadResolved
  \/ LoadProbed
  \/ SinkIdle

InitDuo == InitEngine /\ obs = "duo" /\ loopMode = "off"
SpecDuo == InitDuo /\ [][NextDuo]_vars

\* enqueueing, playing and skipping with /shuffle
NextShuffle ==
  \/ PlayPush
  \/ PlaylistPush
  \/ PlayCont
  \/ Skip
  \/ LoadResolved
  \/ LoadProbed
  \/ SinkIdle
  \/ Shuffle

SpecShuffle == InitFrame /\ [][NextShuffle]_vars

InitDrop == InitEngine /\ obs = "drop"
SpecDrop == InitDrop /\ [][NextFaulty]_vars

(* ------------------------- the guild registry --------------------------- *)
\* In SpecGuilds every command and sink event names its guild and works on
\* the state the registry holds for it.  The single-guild variables keep
\* their initial values there: they are the state createGuildState returns.
Guilds == {"A", "B"}

\* enqueue requests per guild in SpecGuilds
GuildItems == 1
\* suspended calls per guild in SpecGuilds
GuildTasks == 1
\* subprocesses alive per guild in SpecGuilds
GuildLive == 1

\* the commands the members of guild g issue in SpecGuilds; sink events and
\* suspended calls run in every guild
GuildCommands(g) ==
  IF g = "A" THEN {"play", "skip", "stop"} ELSE {"play", "loop", "volume", "stop"}

\* the key of a guild in the registry: guild.id
guildKeyShared(g) == "A"

guildKey(g) == g

createGuildState == St

\* getGuildState: the state of the guild, created on first use
getGuildState(g) ==
  IF guildKey(g) \in DOMAIN guildStates THEN guildStates[guildKey(g)]
  ELSE createGuildState

\* the state of a guild without the histories of the single-guild model
Norm(r) == [r EXCEPT !.ev = Ev("", ""), !.inst = NoInst, !.ended = NoInst,
                     !.endAdv = 0, !.lastDeq = NULL, !.lastStart = NULL,
                     !.pristine = TRUE, !.calm = TRUE, !.sinceStop = FALSE,
                     !.attempts = 0, !.solo = NULL]

\* the handler worked on the object the registry holds for g and left it as r
GuildCommit(g, r) ==
  /\ BagCardinality(r.tasks) <= GuildTasks
  /\ Cardinality(r.alive) <= GuildLive
  /\ guildStates' = [h \in DOMAIN guildStates \cup {guildKey(g)} |->
                       IF h = guildKey(g) THEN Norm(r) ELSE guildStates[h]]
  /\ acted' = g
  /\ UNCHANGED << single, updater >>

\* the suspended calls of guild g
GuildPending(g) ==
  IF guildKey(g) \in DOMAIN guildStates
  THEN BagToSet(guildStates[guildKey(g)].tasks) ELSE {}

\* the sink status of guild g; a guild without state has no player
GuildStatus(g) ==
  IF guildKey(g) \in DOMAIN guildStates
  THEN guildStates[guildKey(g)].status ELSE "none"

\* /play in guild g: push, then await editReply
GuildPlayPush(g) ==
  LET s == getGuildState(g)
  IN /\ "play" \in GuildCommands(g)
     /\ s.nextId <= GuildItems
     /\ GuildCommit(g, [s EXCEPT !.queue = Append(@, s.nextId),
                                 !.nextId = @ + 1,
                                 !.tasks = @ (+) One(Task("play", "reply", NULL))])

\* /play in guild g after editReply resolved
GuildPlayCont(g) ==
  \E t \in GuildPending(g) :
    /\ t.kind = "play"
    /\ LET s == Drop(getGuildState(g), t)
       IN GuildCommit(g, IF s.current = NULL THEN playNext(s) ELSE s)

\* /skip in guild g
GuildSkip(g) ==
  /\ "skip" \in GuildCommands(g)
  /\ GuildCommit(g, cleanupCurrentPipeline(
                      playerStop([getGuildState(g) EXCEPT !.skipRequested = TRUE])))

\* /stop in guild g
GuildStop(g) ==
  LET s0 == [getGuildState(g) EXCEPT !.queue = << >>, !.current = NULL,
                                     !.loopMode = "off", !.skipRequested = FALSE]
  IN /\ "stop" \in GuildCommands(g)
     /\ GuildCommit(g, [cleanupCurrentPipeline(playerStop(s0)) EXCEPT !.vc = FALSE])

\* /loop in guild g
GuildLoop(g) ==
  /\ "loop" \in GuildCommands(g)
  /\ \E m \in Modes : GuildCommit(g, [getGuildState(g) EXCEPT !.loopMode = m])

\* /volume in guild g
GuildVolume(g) ==
  /\ "volume" \in GuildCommands(g)
  /\ \E v \in {5000} : GuildCommit(g, setVolumePct(getGuildState(g), Pct(v)))

\* the sink of guild g finishes its resource
GuildSinkIdle(g) ==
  /\ GuildStatus(g) = "playing"
  /\ GuildCommit(g, handlePlayerIdle([getGuildState(g) EXCEPT !.status = "idle"], TRUE))

\* the sink of guild g raises Error
GuildSinkError(g) ==
  /\ GuildStatus(g) = "playing"
  /\ GuildCommit(g, handlePlayerError([getGuildState(g) EXCEPT !.status = "errored"]))

\* the sink of guild g goes Idle after its Error
GuildSinkIdleAfterError(g) ==
  /\ GuildStatus(g) = "errored"
  /\ GuildCommit(g, handlePlayerIdle([getGuildState(g) EXCEPT !.status = "idle"], FALSE))

\* a load of guild g resolved and spawned ffmpeg
GuildLoadResolved(g) ==
  \E t \in GuildPending(g) :
    /\ IsLoad(t) /\ t.pc = "resolve"
    /\ LET s == getGuildState(g)
           p == FreshPid(s)
       IN GuildCommit(g, [Move(s, t, "probe") EXCEPT !.alive = @ \cup {p},
                                                    !.currentPipe = p])

\* a load of guild g failed
GuildLoadFailed(g) ==
  \E t \in GuildPending(g) :
    /\ IsLoad(t)
    /\ LET s == getGuildState(g)
       IN IF t.kind = "playNext"
          THEN GuildCommit(g, Move(s, t, "skipmsg"))
          ELSE GuildCommit(g, playNext([Drop(s, t) EXCEPT !.current = NULL]))

\* a load of guild g was probed and handed to the sink
GuildLoadProbed(g) ==
  \E t \in GuildPending(g) :
    /\ IsLoad(t) /\ t.pc = "probe"
    /\ LET s == getGuildState(g)
       IN GuildCommit(g, playerPlay(applyVolume([Drop(s, t) EXCEPT
                                       !.currentResource = TRUE]), t.item))

\* playNext of guild g after its skip message was sent
GuildSkipMsgResolved(g) ==
  \E t \in GuildPending(g) :
    /\ t.pc = "skipmsg"
    /\ GuildCommit(g, playNext([Drop(getGuildState(g), t) EXCEPT !.current = NULL]))

\* handlePlayerError of guild g after its reconnect message was sent
GuildErrCont(g) ==
  \E t \in GuildPending(g) :
    /\ t.kind = "handlePlayerError"
    /\ LET s == Drop(getGuildState(g), t)
       IN GuildCommit(g, IF s.current = NULL THEN s ELSE playSame(s, s.current))

\* a command or a sink event of guild g, or a step of one of its suspended calls
GuildStep(g) ==
  \/ GuildPlayPush(g)
  \/ GuildPlayCont(g)
  \/ GuildSkip(g)
  \/ GuildStop(g)
  \/ GuildLoop(g)
  \/ GuildVolume(g)
  \/ GuildSinkIdle(g)
  \/ GuildSinkError(g)
  \/ GuildSinkIdleAfterError(g)
  \/ GuildLoadResolved(g)
  \/ GuildLoadFailed(g)
  \/ GuildLoadProbed(g)
  \/ GuildSkipMsgResolved(g)
  \/ GuildErrCont(g)

NextGuilds == \E g \in Guilds : GuildStep(g)

InitGuilds == InitEngine /\ obs = "guilds"
SpecGuilds == InitGuilds /\ [][NextGuilds]_vars

(* ------------------------- resolver self-update ------------------------- *)
\* a suspended /botupdate handler or runYtDlpUpdate call: who made it, the
\* await it is parked on, and its local `started`
UCall(by, pc, started) == [by |-> by, pc |-> pc, started |-> started]

\* the runYtDlpUpdate calls that passed the isUpdatingYtDlp test and have not
\* returned yet
RunningBag(u) ==
  [c \in {d \in DOMAIN u.calls : d.pc \in {"version", "update"}} |-> u.calls[c]]

\* the mark file as a number, 0 when it cannot be read
readLastUpdateTs(u) == u.mark

\* writeLastUpdateTs(ts); a write that fails is swallowed and leaves the file
writeLastUpdateTs(u, ts, wrote) == [u EXCEPT !.mark = IF wrote THEN ts ELSE @]

\* runYtDlpUpdate that never looks at isUpdatingYtDlp
runYtDlpUpdateReentrant(u, by) ==
  [u EXCEPT !.isUpdatingYtDlp = TRUE,
            !.calls = @ (+) SetToBag({UCall(by, "version", u.now)}),
            !.uev = UEv("request", by, "started")]

\* runYtDlpUpdate up to its first await: refuse while an update runs, else
\* take the flag, note the time and ask the resolver for its version
runYtDlpUpdate(u, by) ==
  IF u.isUpdatingYtDlp
  THEN [u EXCEPT !.uev = UEv("request", by, "refused")]
  ELSE [u EXCEPT !.isUpdatingYtDlp = TRUE,
                 !.calls = @ (+) SetToBag({UCall(by, "version", u.now)}),
                 !.uev = UEv("request", by, "started")]

\* the timer is set for the next midnight
scheduleDailyBangkokMidnight(u) ==
  [u EXCEPT !.timer = "armed", !.due = u.now + 1]

\* runYtDlpUpdate of call c after `-U` settled: the mark is written with the
\* time the call started when the update succeeded, the finally block gives
\* the flag back, and the timer callback that awaited the call re-arms
runYtDlpUpdateEnd(u, c, ok, wrote) ==
  LET u0 == [u EXCEPT !.calls = @ (-) SetToBag({c})]
      u1 == IF ok THEN writeLastUpdateTs(u0, c.started, wrote) ELSE u0
      u2 == [u1 EXCEPT !.isUpdatingYtDlp = FALSE,
                       !.uev = UEv("finished", c.by, IF ok THEN "ok" ELSE "failed")]
  IN IF c.by = "scheduler" THEN scheduleDailyBangkokMidnight(u2) ELSE u2

UCommit(r) ==
  /\ BagCardinality(r.calls) <= MaxCalls
  /\ r.now <= MaxClock
  /\ updater' = r
  /\ UNCHANGED << single, guildStates, acted >>

\* ClientReady handler after the commands were registered: with auto-update
\* on, arm the timer and update at once when the mark is older than a day
ClientReady ==
  /\ updater.timer = "boot"
  /\ \E ytdlpAutoUpdate \in BOOLEAN :
       IF ytdlpAutoUpdate
       THEN LET u == scheduleDailyBangkokMidnight(updater)
            IN UCommit(IF u.now - readLastUpdateTs(u) > ONE_DAY
                       THEN runYtDlpUpdate(u, "boot")
                       ELSE [u EXCEPT !.uev = UEv("ready", "boot", "fresh")])
       ELSE UCommit([updater EXCEPT !.timer = "off",
                                    !.uev = UEv("ready", "boot", "off")])

\* /botupdate up to its deferReply
BotUpdate ==
  /\ BagCardinality(updater.calls) < MaxCalls
  /\ UCommit([updater EXCEPT
                !.calls = @ (+) SetToBag({UCall("command", "defer", 0)}),
                !.uev = UEv("botupdate", "command", "deferred")])

\* deferReply rejected: the handler ends there
BotUpdateDeferRejected ==
  \E c \in BagToSet(updater.calls) :
    /\ c.pc = "defer"
    /\ UCommit([updater EXCEPT !.calls = @ (-) SetToBag({c}),
                               !.uev = UEv("botupdate", "command", "rejected")])

\* /botupdate after deferReply: the call of runYtDlpUpdate
BotUpdateCont ==
  \E c \in BagToSet(updater.calls) :
    /\ c.pc = "defer"
    /\ UCommit(runYtDlpUpdate([updater EXCEPT !.calls = @ (-) SetToBag({c})],
                              "command"))

\* the version query settled either way; `-U` is started
VersionDone ==
  \E c \in BagToSet(updater.calls) :
    /\ c.pc = "version"
    /\ UCommit([updater EXCEPT
                  !.calls = (@ (-) SetToBag({c}))
                              (+) SetToBag({UCall(c.by, "update", c.started)}),
                  !.uev = UEv("version", c.by, "")])

\* `-U` resolved
UpdateSucceeded ==
  \E c \in BagToSet(updater.calls), wrote \in BOOLEAN :
    /\ c.pc = "update"
    /\ UCommit(runYtDlpUpdateEnd(updater, c, TRUE, wrote))

\* `-U` rejected
UpdateFailed ==
  \E c \in BagToSet(updater.calls) :
    /\ c.pc = "update"
    /\ UCommit(runYtDlpUpdateEnd(updater, c, FALSE, FALSE))

\* the timer callback: it awaits runYtDlpUpdate() and re-arms when that
\* returns, which a refused call does at once
TimerFires ==
  /\ updater.timer = "armed"
  /\ updater.due <= updater.now
  /\ LET r == runYtDlpUpdate([updater EXCEPT !.timer = "waiting"], "scheduler")
     IN UCommit(IF BagCardinality(r.calls) = BagCardinality(updater.calls)
                THEN scheduleDailyBangkokMidnight(r) ELSE r)

\* midnight passes
DayPasses ==
  /\ updater.now < MaxClock
  /\ UCommit([updater EXCEPT !.now = @ + 1, !.uev = UEv("day", "", "")])

NextUpdate ==
  \/ ClientReady
  \/ BotUpdate
  \/ BotUpdateDeferRejected
  \/ BotUpdateCont
  \/ VersionDone
  \/ UpdateSucceeded
  \/ UpdateFailed
  \/ TimerFires
  \/ DayPasses

\* a process started with any mark file that an earlier run can have left
InitUpdate ==
  /\ InitState
  /\ loopMode = "off"
  /\ volumePct = defaultVolume("unset")
  /\ obs = "update"
  /\ \E m \in 0..(ONE_DAY + 1) : updater = ProcessStart(m)

SpecUpdate == InitUpdate /\ [][NextUpdate]_vars

\* playback of tracks with the /volume command, for every DEFAULT_VOLUME
NextVolume ==
  \/ PlayPush \/ PlayCont \/ LoadResolved \/ LoadProbed
  \/ SinkIdle \/ Skip \/ Stop \/ Volume

InitVolume ==
  /\ Init0
  /\ obs = "volume"
  /\ volumePct \in {defaultVolume(e) : e \in EnvValues}

SpecVolume == InitVolume /\ [][NextVolume]_vars

(* ------------------------------ claims ---------------------------------- *)
\* C1: in every reachable state at most one transcoder subprocess that was
\* spawned and not yet killed exists for the guild.
AtMostOneLivePipeline == Cardinality(alive) <= 1

\* C2: in every reachable state a held pipeline (currentPipe non-null) implies
\* that current is non-null.
PipelineImpliesCurrent == currentPipe # NULL => current # NULL

\* C3: the continuation of a load that was suspended when stop was issued
\* installs no pipeline, starts nothing on the sink and sends no now-playing
\* notification, and from the stop to the next enqueue current stays null and
\* the queue stays empty.
StopInterruptsLoad ==
  /\ ~(ev.stopped /\ ev.op \in {"spawn", "start"})
  /\ sinceStop => (current = NULL /\ queue = << >>)

\* C4: a load of the current track that was suspended, with nothing of it on
\* the sink yet, when skip was issued never starts playing.
SkipAbortsLoad == ~(ev.skipped /\ ev.op = "start")

RetryOnce ==
  /\ ~inst.other => inst.starts <= 2
  /\ (ended.item # NULL /\ ~ended.other /\ ended.errs >= 1)
        => (ended.starts = 2 /\ ended.errs = 2)

SkipSuppressesTrackLoop ==
  [][ (ev'.op = "skip" /\ ev'.tag = "playing" /\ loopMode = "track")
        => /\ current' = (IF Len(queue) = 0 THEN NULL ELSE Head(queue))
           /\ queue' = (IF Len(queue) = 0 THEN << >> ELSE Tail(queue))
           /\ \A t \in BagToSet(tasks') :
                t.kind = "playSame" => CopiesIn(t, tasks') <= CopiesIn(t, tasks)
    ]_vars

\* C8 witness: such a skip has advanced to the next queue item.
SkipWitness ==
  /\ ev.op = "skip" /\ ev.tag = "playing" /\ loopMode = "track"
  /\ current # NULL
  /\ Task("playNext", "resolve", current) \in BagToSet(tasks)

\* C9: under loopMode=track a natural completion of the current track, with no
\* skip issued since that track instance began, reloads the same item and
\* leaves the queue as it is.
LoopTrackReplays ==
  [][ (ev'.op = "idle" /\ loopMode = "track" /\ current # NULL /\ ~inst.skipCmd)
        => /\ current' = current
           /\ queue' = queue
           /\ CopiesIn(Task("playSame", "resolve", current), tasks')
                > CopiesIn(Task("playSame", "resolve", current), tasks)
    ]_vars

\* C10: under loopMode=queue a natural completion rotates the play order:
\* the completed item goes to the back and the head becomes current, so that
\* nothing is lost or duplicated.
LoopQueueRotates ==
  [][ (ev'.op = "idle" /\ ev'.tag = "queue")
        => << current' >> \o queue' = queue \o << current >>
    ]_vars

\* C10 witness: with a, b enqueued in that order, b has completed after a and
\* the play order is a, b again.
LoopQueueWitness ==
  /\ ev.op = "idle" /\ ev.tag = "queue"
  /\ current = 1 /\ queue = << 2 >>

\* C11: immediately after a stop, whatever the engine was doing, the queue is
\* empty, current is null, loopMode is off, the held pipeline is killed and
\* forgotten, the voice connection is released, the sink plays nothing, and
\* the stop (with the sink Idle it provokes) has started no load.
StopResets ==
  [][ ev'.op = "stop"
        => /\ queue' = << >>
           /\ current' = NULL
           /\ loopMode' = "off"
           /\ currentPipe' = NULL
           /\ currentPipe \notin alive'
           /\ ~vc'
           /\ status' \notin {"playing", "paused"}
           /\ \A t \in BagToSet(tasks') : CopiesIn(t, tasks') <= CopiesIn(t, tasks)
    ]_vars

\* C11 witness: a stop has been issued while a track was playing.
StopWitness ==
  /\ ev.op = "stop" /\ ev.tag = "playing"
  /\ queue = << >> /\ current = NULL /\ ~vc

\* the set of items in the queue
InQueue(q) == {q[k] : k \in 1..Len(q)}

\* C12: a step in which a load started by playNext fails leaves the queue as it
\* is and leaves that call suspended only at its skip message, and the step
\* that follows the message makes the head of the queue current and loads it
\* (current null when the queue is empty), the failed item not being in the
\* queue.
LoadFailureAbandons ==
  [][ /\ (ev'.op = "loadFailed" /\ ev'.tag \in {"playNext", "rejected"})
          => /\ queue' = queue
             /\ CopiesIn(Task("playNext", "skipmsg", ev'.item), tasks') > 0
      /\ ev'.op = "abandon"
          => /\ ev'.item \notin InQueue(queue')
             /\ current' = (IF Len(queue) = 0 THEN NULL ELSE Head(queue))
             /\ queue' = (IF Len(queue) = 0 THEN << >> ELSE Tail(queue))
             /\ Len(queue) > 0
                  => CopiesIn(Task("playNext", "resolve", Head(queue)), tasks')
                       > CopiesIn(Task("playNext", "resolve", Head(queue)), tasks)
    ]_vars

\* when no call is in flight every enqueued item has had exactly one load
\* attempt and the engine has settled
Settled ==
  tasks = EmptyBag
    => /\ attempts = nextId - 1
       /\ current = NULL
       /\ queue = << >>
       /\ currentPipe = NULL
       /\ alive = {}
       /\ ~vc

NowPlayingAfterStart ==
  [][ /\ ev'.note = "nowplaying"
          => /\ \E t \in BagToSet(tasks) :
                  /\ t.kind = "playNext" /\ t.pc = "probe" /\ t.item = ev'.item
                  /\ CopiesIn(t, tasks') < CopiesIn(t, tasks)
             /\ status' = "playing"
             /\ currentResource'
      /\ ev'.op = "loadFailed" => ev'.note # "nowplaying"
    ]_vars

\* C15 witness: a track was started and announced.
NowPlayingWitness ==
  /\ ev.note = "nowplaying" /\ ev.op = "start"
  /\ status = "playing" /\ current = ev.item

\* C16: every step that abandons a track because of a failure (a failed load
\* of playNext or of playSame, a second sink Error) sends the skipped
\* notification.
FailureNotifies ==
  [][ (ev'.op = "loadFailed" \/ (ev'.op = "error" /\ ev'.tag = "second"))
        => ev'.note = "skipped"
    ]_vars

\* C17: a step that ends the current track while the queue is empty and no
\* loop keeps the track (a natural completion under loopMode=off, a skip under
\* loopMode off or track, a second sink Error, the abandonment after a failed
\* load) sends the queue-empty notification and leaves current null.
RunOutNotifies ==
  [][ ( /\ current # NULL
        /\ queue = << >>
        /\ \/ ev'.op = "idle" /\ loopMode = "off"
           \/ ev'.op = "skip" /\ loopMode # "queue"
           \/ ev'.op = "error" /\ ev'.tag = "second"
           \/ ev'.op = "abandon"
           \/ ev'.op = "loadFailed" /\ ev'.tag = "playSame" )
        => (ev'.note = "empty" /\ current' = NULL)
    ]_vars

\* C18: the step that handles the first sink Error of the current track sends
\* the reconnect notification, kills no subprocess, keeps the held pipeline
\* and starts no load; the load of the retry starts in a later step, taken by
\* the call that was suspended at that notification.
ReconnectBeforeRetry ==
  [][ /\ (ev'.op = "error" /\ ev'.tag \in {"first", "rejected"})
          => /\ ev'.note = "reconnect"
             /\ currentPipe' = currentPipe
             /\ alive' = alive
             /\ \A t \in BagToSet(tasks') :
                  IsLoad(t) => CopiesIn(t, tasks') <= CopiesIn(t, tasks)
      /\ \A t \in BagToSet(tasks') :
           (t.kind = "playSame" /\ ev'.op \in {"error", "retry"}
              /\ CopiesIn(t, tasks') > CopiesIn(t, tasks))
             => /\ ev'.op = "retry"
                /\ CopiesIn(Task("handlePlayerError", "reconnect", ev'.item), tasks)
                     > CopiesIn(Task("handlePlayerError", "reconnect", ev'.item), tasks')
    ]_vars

\* C18 witness: after the reconnect notification the retry has started its load.
ReconnectWitness ==
  /\ ev.op = "retry" /\ ev.tag = ""
  /\ current # NULL
  /\ CopiesIn(Task("playSame", "resolve", current), tasks) > 0

\* C19: the voice connection is released only by a stop, or by a step that
\* ends or abandons a track and in which playNext finds the queue empty: it
\* sends the queue-empty notification and leaves current null.
VoiceReleasedOnlyWhenDone ==
  [][ (vc /\ ~vc')
        => \/ ev'.op = "stop"
           \/ /\ ev'.note = "empty"
              /\ ev'.op \in {"idle", "idleAfterError", "skip", "error",
                              "abandon", "loadFailed"}
              /\ queue' = << >>
              /\ current' = NULL
    ]_vars

\* C19 witness: the last track completed and the voice connection was released.
VoiceReleasedWitness ==
  /\ ev.op = "idle" /\ ev.note = "empty"
  /\ ~vc /\ current = NULL

\* C20: volumePct is, in every reachable state, an integer within 0..1000,
\* and a setVolumePct(percent) stores min(max(percent, 0), 1000).
VolumeClamped ==
  /\ [](IsInteger(volumePct) /\ volumePct >= Pct(0) /\ volumePct <= Pct(1000))
  /\ [][ \A p \in Percents :
           (ev'.op = "volume" /\ ev'.tag = ToString(p))
             => volumePct' = Pct(Min(Max(p, 0), 1000))
       ]_vars

\* the fields of the guild state, the sink and what is in flight
engine == << queue, current, currentPipe, currentResource, volumePct, gain,
             tried, skipRequested, loopMode, status, vc, alive, tasks, nextId >>

\* C21 as stated: a /remove whose index is below 1 or above the queue length
\* answers with the invalid-index rejection, whatever the queue length, and
\* changes nothing.
RemoveRejectsInvalid ==
  [][ (ev'.op = "remove" /\ (ev'.item < 1 \/ ev'.item > Len(queue)))
        => (ev'.tag = "invalid" /\ UNCHANGED engine)
    ]_vars

\* C21 as amended: a /remove whose index is below 1 or above the queue length
\* is rejected and changes nothing; the rejection is the invalid-index one
\* when the queue has entries and the queue-empty one when it has none.
RemoveRejects ==
  [][ (ev'.op = "remove" /\ (ev'.item < 1 \/ ev'.item > Len(queue)))
        => /\ ev'.tag = (IF Len(queue) = 0 THEN "empty" ELSE "invalid")
           /\ UNCHANGED engine
    ]_vars

\* C21 witness: index length+1 on a queue with entries was rejected.
RemoveWitness ==
  /\ ev.op = "remove" /\ ev.tag = "invalid"
  /\ Len(queue) >= 1 /\ ev.item = Len(queue) + 1
  /\ current # NULL

\* C22: in every reachable state the item held in current is not an entry of
\* the queue.
CurrentNotQueued == current # NULL => current \notin InQueue(queue)

\* C22 witness: under loopMode=queue item 1 was played and put back behind
\* item 3 while item 2 is playing.
CurrentNotQueuedWitness ==
  /\ loopMode = "queue" /\ status = "playing"
  /\ current = 2 /\ queue = << 3, 1 >>

\* the fields of guild h that the handlers of other guilds must not touch
GuildFields(gs, h) ==
  << gs[h].queue, gs[h].current, gs[h].loopMode, gs[h].volumePct, gs[h].gain,
     gs[h].currentPipe, gs[h].currentResource, gs[h].alive, gs[h].tried,
     gs[h].skipRequested, gs[h].status, gs[h].vc, gs[h].tasks >>

\* guild g has a load suspended at one of its awaits
GuildLoading(g) == \E t \in GuildPending(g) : IsLoad(t)

\* guild h can take one more suspended call within GuildTasks
GuildRoom(h) ==
  h \in DOMAIN guildStates => BagCardinality(guildStates[h].tasks) < GuildTasks

\* C23: the registry starts empty and a guild gets its state on its own first
\* command; a command, a sink event or a resumed call of guild g neither
\* creates, removes nor changes the state (queue, current, loopMode, volumePct,
\* pipeline, restart flag, skip flag, sink, suspended calls) of any other
\* guild; and while a load of g is suspended, /stop and /loop of every other
\* guild h can run, and so can /skip of h and the Idle and Error events of
\* h's playing sink (as far as the handler's own suspended call fits
\* GuildTasks).
GuildsIsolated ==
  /\ [](\A g \in Guilds : \A h \in Guilds \ {g} :
         GuildLoading(g)
           => /\ ENABLED GuildStop(h)
              /\ "skip" \in GuildCommands(h) /\ GuildRoom(h) => ENABLED GuildSkip(h)
              /\ "loop" \in GuildCommands(h) => ENABLED GuildLoop(h)
              /\ GuildStatus(h) = "playing" /\ GuildRoom(h)
                   => ENABLED GuildSinkIdle(h) /\ ENABLED GuildSinkError(h))
  /\ [][ \A g \in Guilds :
           acted' = g
             => \A h \in Guilds \ {g} :
                  /\ h \in DOMAIN guildStates' <=> h \in DOMAIN guildStates
                  /\ h \in DOMAIN guildStates
                       => GuildFields(guildStates', h) = GuildFields(guildStates, h)
       ]_vars

\* C23 witness: a step of guild A left it with a load suspended and its
\* restart flag and skip flag set, while guild B, with another volume and loop
\* mode, is playing.
GuildsWitness ==
  /\ DOMAIN guildStates = Guilds
  /\ acted = "A"
  /\ GuildLoading("A")
  /\ guildStates["A"].tried /\ guildStates["A"].skipRequested
  /\ guildStates["B"].status = "playing" /\ guildStates["B"].current # NULL
  /\ guildStates["B"].volumePct # guildStates["A"].volumePct
  /\ guildStates["B"].loopMode # guildStates["A"].loopMode

\* a load, the catch block of a failed load or a retry is suspended
EngineBusy ==
  \E t \in Pending : t.kind \in {"playNext", "playSame", "handlePlayerError"}

\* C24: in every reachable state a non-null current is being played (or its
\* sink Error is still being handled), or a load, a retry or the abandonment
\* of a failed load is in flight: the engine never stays with a current track
\* while the sink is idle and nothing is in flight.
NeverStranded ==
  current # NULL => (status \in {"playing", "paused", "errored"} \/ EngineBusy)

\* C25: after every step that handles the completion of a current track (a
\* sink Idle, the Idle that follows a sink Error, the Idle that a skip of a
\* playing or paused track provokes) skipRequested is false.
SkipFlagConsumed ==
  [][ ( /\ current # NULL
        /\ \/ ev'.op \in {"idle", "idleAfterError"}
           \/ ev'.op = "skip" /\ status \in {"playing", "paused"} )
        => ~skipRequested'
    ]_vars

\* C25 witness: a skip issued while a track was loading stayed pending, and
\* the completion of that track has consumed it.
SkipFlagWitness ==
  /\ ev.op = "idle" /\ ~skipRequested
  /\ loopMode = "track" /\ current = NULL /\ nextId = 2

\* C26: in every step in which a new track begins loading (playNext starts
\* the load of the item it dequeued, or handlePlayerIdle starts the replay of
\* the finished track under loopMode=track), restartGuard.tried is false
\* afterwards.
RetryFlagReset ==
  [][ \A t \in BagToSet(tasks') :
        ( /\ IsLoad(t) /\ t.pc = "resolve"
          /\ CopiesIn(t, tasks') > CopiesIn(t, tasks)
          /\ \/ t.kind = "playNext"
             \/ t.kind = "playSame" /\ ev'.op \in {"idle", "idleAfterError"} )
        => ~tried'
    ]_vars

\* C26 witness: the previous track used its retry and failed again; the next
\* track begins loading with the flag false.
RetryFlagWitness ==
  /\ ev.op = "error" /\ ev.tag = "second"
  /\ current # NULL /\ ~tried
  /\ CopiesIn(Task("playNext", "resolve", current), tasks) > 0

\* what an enqueue leaves alone while a track is current
playback == << current, currentPipe, currentResource, loopMode, status, alive,
               tried, skipRequested, vc, volumePct >>

TeardownIdempotent ==
  LET once == cleanupCurrentPipeline(St)
      twice == cleanupCurrentPipeline(once)
  IN /\ twice = once
     /\ once.currentPipe = NULL
     /\ once.alive = alive \ {currentPipe}
     /\ [once EXCEPT !.alive = alive, !.currentPipe = currentPipe] = St
     /\ currentPipe = NULL => once = St

\* C28 witness: the skip of a playing track ran the teardown in the Idle
\* handler, in playNext and in the skip handler, and left no subprocess.
TeardownWitness ==
  /\ ev.op = "skip" /\ ev.tag = "playing"
  /\ currentPipe = NULL /\ alive = {}

\* C29: a subprocess is spawned only by the step that resumes a load from
\* its resolution (the load was suspended at the resolver and goes on to the
\* probe), a load is never started past its resolution, and a step that
\* pushes entries into the queue spawns nothing and starts no load.
ResolvedAtPlayTime ==
  [][ /\ (alive' \ alive # {})
          => \E t \in BagToSet(tasks) :
               /\ IsLoad(t) /\ t.pc = "resolve"
               /\ CopiesIn(t, tasks') < CopiesIn(t, tasks)
               /\ CopiesIn([t EXCEPT !.pc = "probe"], tasks')
                    > CopiesIn([t EXCEPT !.pc = "probe"], tasks)
      /\ \A u \in BagToSet(tasks') :
           (IsLoad(u) /\ u.pc = "probe" /\ CopiesIn(u, tasks') > CopiesIn(u, tasks))
             => CopiesIn([u EXCEPT !.pc = "resolve"], tasks')
                  < CopiesIn([u EXCEPT !.pc = "resolve"], tasks)
      /\ nextId' # nextId
          => /\ alive' = alive
             /\ \A u \in BagToSet(tasks') :
                  IsLoad(u) => CopiesIn(u, tasks') <= CopiesIn(u, tasks)
    ]_vars

\* C29 witness: the retry of the current track has resolved again and spawned.
ResolvedWitness ==
  /\ tried /\ currentPipe # NULL /\ current # NULL
  /\ CopiesIn(Task("playSame", "probe", current), tasks) > 0

\* C30: the load that the resumed handlePlayerError starts after the
\* reconnect notification is a load of the item that was current when the
\* sink raised the Error.
RetrySameItem ==
  [][ ev'.op = "retry"
        => \A t \in BagToSet(tasks') :
             (t.kind = "playSame" /\ CopiesIn(t, tasks') > CopiesIn(t, tasks))
               => t.item = ev'.item
    ]_vars

\* a load of item i begins in this step
LoadBegins(i) ==
  \E k \in {"playNext", "playSame"} :
    CopiesIn(Task(k, "resolve", i), tasks') > CopiesIn(Task(k, "resolve", i), tasks)

\* C31: an item that handlePlayerError abandoned on a sink Error that found
\* the restart already used is from then on neither current nor in the queue,
\* and no step begins a load of it: it is not replayed under loopMode=track
\* and not put back under loopMode=queue, the Idle that follows the Error
\* included.
AbandonedStaysOut ==
  /\ [](\A i \in abandoned : i # current /\ i \notin InQueue(queue))
  /\ [][\A i \in abandoned' : ~LoadBegins(i)]_vars

\* C31 witness: under loopMode=queue item 1 was abandoned on its second Error
\* and the Idle that followed the Error has been handled.
AbandonedWitness ==
  /\ 1 \in abandoned /\ loopMode = "queue"
  /\ status = "idle" /\ current # NULL

\* C32 as stated: a skip of the track on the sink (playing or paused) makes
\* the head of the queue current, or null when the queue is empty, and leaves
\* the rest of the queue as it was, whatever the loop mode: under
\* loopMode=queue the skipped item is not appended.
SkipOnlyAdvances ==
  [][ (ev'.op = "skip" /\ ev'.tag \in {"playing", "paused"})
        => /\ current' = (IF Len(queue) = 0 THEN NULL ELSE Head(queue))
           /\ queue' = (IF Len(queue) = 0 THEN << >> ELSE Tail(queue))
    ]_vars

\* C32 as amended: a skip of the track on the sink advances whatever the loop
\* mode: under loopMode=queue the skipped item is first appended to the back
\* of the queue, as on a natural completion; then the head of the queue
\* becomes current and the rest of the queue is as it was.
SkipAdvances ==
  [][ (ev'.op = "skip" /\ ev'.tag \in {"playing", "paused"})
        => LET q == IF loopMode = "queue" THEN Append(queue, current) ELSE queue
           IN /\ current' = (IF Len(q) = 0 THEN NULL ELSE Head(q))
              /\ queue' = (IF Len(q) = 0 THEN << >> ELSE Tail(q))
    ]_vars

\* C32 witness: under loopMode=queue item 1 was skipped while it was playing:
\* item 2 is current and item 1 is at the back of the queue.
SkipAdvancesWitness ==
  /\ ev.op = "skip" /\ ev.tag = "playing" /\ loopMode = "queue"
  /\ current = 2 /\ queue = << 3, 1 >>

\* C33: a skip issued while the sink plays nothing (the engine idle, or a
\* load in flight) provokes no completion event and leaves skipRequested
\* clear.
SkipFlagNotLeftSet ==
  [][ (ev'.op = "skip" /\ status \notin {"playing", "paused"})
        => ~skipRequested'
    ]_vars

\* C34: every item that was enqueued is eventually started on the sink,
\* reported as skipped because of a failure, skipped by the user while it is
\* current, removed, or cleared by a stop.
NoItemLost ==
  \A i \in 1..MaxItems : (i < nextId) ~> (i \in outcome)

\* the /play handlers suspended at their reply
Replying == CopiesIn(Task("play", "reply", NULL), tasks)

RemoveExact ==
  [][ (ev'.op = "remove" /\ ev'.item >= 1 /\ ev'.item <= Len(queue))
        => /\ ev'.tag = "removed"
           /\ Len(queue') = Len(queue) - 1
           /\ \A k \in 1..Len(queue') :
                queue'[k] = (IF k < ev'.item THEN queue[k] ELSE queue[k + 1])
           /\ UNCHANGED << playback, gain, tasks, nextId >>
    ]_vars

\* C36 witness: with item 1 loading and items 2, 3 queued, the entry at
\* index 1 was removed and item 3 moved up.
RemoveExactWitness ==
  /\ ev.op = "remove" /\ ev.tag = "removed" /\ ev.item = 1
  /\ queue = << 3 >> /\ current = 1
  /\ \E t \in Pending : IsLoad(t)

\* how often item x occurs in the queue q
Occurrences(q, x) == Cardinality({k \in 1..Len(q) : q[k] = x})

\* C37: a /shuffle leaves the queue with the same length and with every item
\* as often as before, leaves current, the pipeline, the sink, the loads in
\* flight and the settings untouched, and changes nothing at all when the
\* queue has fewer than two entries.
ShufflePermutes ==
  [][ ev'.op = "shuffle"
        => /\ Len(queue') = Len(queue)
           /\ \A x \in 1..MaxItems : Occurrences(queue', x) = Occurrences(queue, x)
           /\ Len(queue) < 2 => queue' = queue
           /\ UNCHANGED << playback, gain, tasks, nextId >>
    ]_vars

\* C37 witness: a shuffle has reordered three queued entries.
ShuffleWitness ==
  /\ ev.op = "shuffle" /\ ev.tag = "shuffled"
  /\ queue = << 2, 3, 1 >> /\ loopMode = "off"

\* C38: at most one resolver self-update runs at a time: a request from the
\* command, the timer or the start-up test that arrives while an update is in
\* progress is refused and starts nothing, the isUpdatingYtDlp flag is set
\* exactly while an update runs and is clear after the step that finishes one,
\* whether it succeeded or failed, and the mark file changes only in the step
\* that finishes an update successfully.
OneUpdateAtATime ==
  /\ [](/\ BagCardinality(RunningBag(updater)) <= 1
        /\ updater.isUpdatingYtDlp = (BagCardinality(RunningBag(updater)) = 1))
  /\ [][ /\ (updater'.uev.op = "request" /\ RunningBag(updater) # EmptyBag)
              => /\ updater'.uev.tag = "refused"
                 /\ RunningBag(updater') = RunningBag(updater)
                 /\ updater'.isUpdatingYtDlp
                 /\ updater'.mark = updater.mark
         /\ updater'.uev.op = "finished"
              => /\ ~updater'.isUpdatingYtDlp
                 /\ RunningBag(updater') = EmptyBag
         /\ updater'.mark # updater.mark
              => updater'.uev.op = "finished" /\ updater'.uev.tag = "ok"
     ]_vars

\* C38 witness: the timer asked for an update a day after a /botupdate
\* started one that is still waiting for `-U`, and was refused.
OneUpdateWitness ==
  /\ updater.uev = UEv("request", "scheduler", "refused")
  /\ updater.isUpdatingYtDlp
  /\ RunningBag(updater) = SetToBag({UCall("command", "update", updater.now - 1)})
  /\ updater.timer = "armed"

(* ------------------------------ sanity ---------------------------------- *)
TypeOK ==
  /\ current \in 0..MaxItems
  /\ currentPipe \in alive \cup {NULL}
  /\ loopMode \in Modes
  /\ status \in {"idle", "playing", "paused", "errored"}

====
